---- MODULE Spec2Model ----
(***************************************************************************)
(* seb-grep (src/sebgrep.py): the configuration object, the per-line match *)
(* predicate, the line formatter and the grep() generator, with the        *)
(* consumer that pulls from it.                                            *)
(*                                                                         *)
(* Text is a sequence of one-character strings, so that lower(), find(),   *)
(* split(), str(int) and ':'.join() are computed rather than assumed.      *)
(***************************************************************************)
EXTENDS Integers, Sequences, FiniteSets, TLC

VARIABLES params, cfg, inputs, pc, cur, idx, match_counter, pending, out, error, probe

vars == <<params, cfg, inputs, pc, cur, idx, match_counter, pending, out, error, probe>>

(***************************************************************************)
(* Bounds of the model.                                                    *)
(***************************************************************************)
MaxPaths == 2
MaxLines == 2
MaxLineLen == 3
MaxExprLen == 3
MaxLineNo == 11

(***************************************************************************)
(* Text helpers.                                                           *)
(***************************************************************************)
NL == "\n"

Range(s) == {s[i] : i \in 1..Len(s)}

SeqsUpTo(S, n) == UNION {[1..m -> S] : m \in 0..n}

\* str.lower() on one character of the alphabets used here
LowerChar(c) == CASE c = "A" -> "a" [] c = "B" -> "b" [] OTHER -> c

\* str.lower()
Lower(s) == [i \in 1..Len(s) |-> LowerChar(s[i])]

\* str.find(sub): the lowest 0-based index where sub occurs in s, or -1
RECURSIVE FindFrom(_, _, _)
FindFrom(s, sub, i) ==
    IF i + Len(sub) > Len(s) THEN -1
    ELSE IF SubSeq(s, i + 1, i + Len(sub)) = sub THEN i
    ELSE FindFrom(s, sub, i + 1)

Find(s, sub) == FindFrom(s, sub, 0)

\* str.split('\n'): the pieces between newlines, [''] for the empty string
RECURSIVE SplitFrom(_, _, _)
SplitFrom(s, i, piece) ==
    IF i > Len(s) THEN <<piece>>
    ELSE IF s[i] = NL THEN <<piece>> \o SplitFrom(s, i + 1, <<>>)
    ELSE SplitFrom(s, i + 1, Append(piece, s[i]))

Split(s) == SplitFrom(s, 1, <<>>)

Digits == <<"0", "1", "2", "3", "4", "5", "6", "7", "8", "9">>

\* str(n) for an int: decimal digits, most significant first, '-' when negative
RECURSIVE StrNat(_)
StrNat(n) == IF n < 10 THEN <<Digits[n + 1]>> ELSE StrNat(n \div 10) \o <<Digits[(n % 10) + 1]>>

StrInt(n) == IF n < 0 THEN <<"-">> \o StrNat(0 - n) ELSE StrNat(n)

\* ':'.join(content)
RECURSIVE Join(_)
Join(content) ==
    IF Len(content) = 0 THEN <<>>
    ELSE IF Len(content) = 1 THEN content[1]
    ELSE content[1] \o <<":">> \o Join(Tail(content))

(***************************************************************************)
(* parse_arguments / GrepConfig                                            *)
(***************************************************************************)
\* the parsed option set: with_filename is None unless -H (True) or -h (False)
ParamsOf(expr, paths, v, i, n, wf, l, bigL) ==
    [expr |-> expr, file_paths |-> paths, invert_match |-> v, ignore_case |-> i,
     number_prefix |-> n, with_filename |-> wf,
     only_files_with_matches |-> l, only_files_without_match |-> bigL]

\* lines 93-96 with the default taken as "at least one path"
ResolveWithFilenameAnyPath(p) ==
    IF p.with_filename = "None" THEN Len(p.file_paths) > 0
    ELSE p.with_filename = "True"

\* GrepConfig.__init__ lines 93-96
ResolveWithFilename(p) ==
    IF p.with_filename = "None" THEN Len(p.file_paths) > 1
    ELSE p.with_filename = "True"

\* GrepConfig.__init__ lines 98-100
ComparableExprs(p) == Split(IF p.ignore_case THEN Lower(p.expr) ELSE p.expr)

GrepConfig(p) ==
    [stdin |-> (Len(p.file_paths) = 0),
     file_paths |-> p.file_paths,
     expr |-> p.expr,
     ignore_case |-> p.ignore_case,
     invert_match |-> p.invert_match,
     number_prefix |-> p.number_prefix,
     only_files_with_matches |-> p.only_files_with_matches,
     only_files_without_match |-> p.only_files_without_match,
     with_filename |-> ResolveWithFilename(p),
     comparable_exprs |-> ComparableExprs(p)]

(***************************************************************************)
(* GrepLine                                                                *)
(***************************************************************************)
GrepLine(file_name, n, line, c) ==
    [file_name |-> file_name, n |-> n, line |-> line,
     comparable_line |-> IF c.ignore_case THEN Lower(line) ELSE line]

\* __str__ with the line number put before the source name
GrepLineStrNumberFirst(gl, c) ==
    IF c.only_files_with_matches \/ c.only_files_without_match
    THEN gl.file_name \o <<NL>>
    ELSE Join((IF c.number_prefix THEN <<StrInt(gl.n)>> ELSE <<>>)
              \o (IF c.with_filename THEN <<gl.file_name>> ELSE <<>>)
              \o <<gl.line>>)

\* GrepLine.__str__
GrepLineStr(gl, c) ==
    IF c.only_files_with_matches \/ c.only_files_without_match
    THEN gl.file_name \o <<NL>>
    ELSE Join((IF c.with_filename THEN <<gl.file_name>> ELSE <<>>)
              \o (IF c.number_prefix THEN <<StrInt(gl.n)>> ELSE <<>>)
              \o <<gl.line>>)

\* match() that gives up after the first expression
RECURSIVE MatchFirstOnly(_, _, _)
MatchFirstOnly(gl, c, i) ==
    IF i > Len(c.comparable_exprs) THEN c.invert_match
    ELSE IF Find(gl.comparable_line, c.comparable_exprs[i]) # -1 THEN ~c.invert_match
    ELSE c.invert_match

\* GrepLine.match: the loop over comparable_exprs, from position i
RECURSIVE MatchFrom(_, _, _)
MatchFrom(gl, c, i) ==
    IF i > Len(c.comparable_exprs) THEN c.invert_match
    ELSE IF Find(gl.comparable_line, c.comparable_exprs[i]) # -1 THEN ~c.invert_match
    ELSE MatchFrom(gl, c, i + 1)

match(gl, c) == MatchFrom(gl, c, 1)

(***************************************************************************)
(* Inputs of the runs.                                                     *)
(***************************************************************************)
StdinName == <<"s", "t", "d", "i", "n">>

\* the i-th requested path
PathName(i) == <<"f", Digits[i + 1]>>

Paths(n) == [i \in 1..n |-> PathName(i)]

\* lines a source can deliver, each with its terminator
LinePool == {<<"A", NL>>, <<"b", NL>>}

\* the expression given on the command line: two patterns, which with -i and
\* -v make each subset of LinePool the interesting lines
ExprPool == {<<"a", NL, "b">>}

WithFilenameOpts == {"None", "True", "False"}

NoProbe == [kind |-> "none"]

(***************************************************************************)
(* GrepInput / the stream behind it                                        *)
(***************************************************************************)
\* GrepInput(input_name, input_io): the stream's lines delivered so far, how
\* it stands ("open", "eof" after StopIteration, "failed" after an IOError)
\* and the number of close() calls it has received
GrepInput(input_name) ==
    [input_name |-> input_name, read |-> <<>>, io |-> "open", closed |-> 0]

\* a close() that is never made
CloseForgotten(ins, k) == ins

\* input_iterable.close() on the current source
Close(ins, k) == [ins EXCEPT ![k].closed = @ + 1]

(***************************************************************************)
(* SebGrep.grep(): the generator, one action per step, and its consumer    *)
(***************************************************************************)
Init ==
    /\ \E e \in ExprPool, n \in 0..MaxPaths, v \in BOOLEAN, i \in BOOLEAN,
          np \in BOOLEAN, wf \in WithFilenameOpts, l \in BOOLEAN, bigL \in BOOLEAN :
          /\ ~(l /\ bigL)
          /\ params = ParamsOf(e, Paths(n), v, i, np, wf, l, bigL)
    /\ cfg = GrepConfig(params)
    /\ inputs = <<>>
    /\ pc = "created"
    /\ cur = 0
    /\ idx = -1
    /\ match_counter = 0
    /\ pending = "None"
    /\ out = <<>>
    /\ error = "None"
    /\ probe = NoProbe

\* the consumer's first next(): the body starts at line 176
Start ==
    /\ pc = "created"
    /\ pc' = "compute_inputs"
    /\ UNCHANGED <<params, cfg, inputs, cur, idx, match_counter, pending, out, error, probe>>

\* compute_inputs, line 169: the single stdin source
ComputeInputsStdin ==
    /\ pc = "compute_inputs"
    /\ cfg.stdin
    /\ inputs = <<>>
    /\ inputs' = <<GrepInput(StdinName)>>
    /\ UNCHANGED <<params, cfg, pc, cur, idx, match_counter, pending, out, error, probe>>

\* compute_inputs, line 171: open(path, 'rt') succeeds for the next path
ComputeInputsOpen ==
    /\ pc = "compute_inputs"
    /\ ~cfg.stdin
    /\ Len(inputs) < Len(cfg.file_paths)
    /\ inputs' = Append(inputs, GrepInput(cfg.file_paths[Len(inputs) + 1]))
    /\ UNCHANGED <<params, cfg, pc, cur, idx, match_counter, pending, out, error, probe>>

\* compute_inputs, line 171: open(path, 'rt') raises; the error leaves grep()
ComputeInputsOpenFails ==
    /\ pc = "compute_inputs"
    /\ ~cfg.stdin
    /\ Len(inputs) < Len(cfg.file_paths)
    /\ pc' = "raised"
    /\ error' = "OpenError"
    /\ UNCHANGED <<params, cfg, inputs, cur, idx, match_counter, pending, out, probe>>

\* line 177: the for loop takes the next input, or grep() returns
NextInput(k) ==
    IF k > Len(inputs)
    THEN /\ pc' = "done"
         /\ UNCHANGED <<cur, idx, match_counter>>
    ELSE /\ pc' = "loop"
         /\ cur' = k
         /\ idx' = -1
         /\ match_counter' = 0

\* compute_inputs returns the list; lines 177-181 enter the first source
ComputeInputsReturn ==
    /\ pc = "compute_inputs"
    /\ Len(inputs) = (IF cfg.stdin THEN 1 ELSE Len(cfg.file_paths))
    /\ NextInput(1)
    /\ UNCHANGED <<params, cfg, inputs, pending, out, error, probe>>

\* lines 183-191, with position among the matching lines instead of the
\* position in the source
ProcessLineCountingMatches(line) ==
    LET gl == GrepLine(inputs[cur].input_name, match_counter + 1, line, cfg) IN
    IF match(gl, cfg)
    THEN /\ match_counter' = match_counter + 1
         /\ IF ~cfg.only_files_without_match
            THEN /\ out' = Append(out, gl)
                 /\ pc' = "yield_line"
            ELSE /\ out' = out
                 /\ pc' = "finally"
    ELSE /\ UNCHANGED <<match_counter, out, pc>>

\* lines 183-191: the loop body for the line enumerate() handed out as idx'
ProcessLine(line) ==
    LET gl == GrepLine(inputs[cur].input_name, idx' + 1, line, cfg) IN
    IF match(gl, cfg)
    THEN /\ match_counter' = match_counter + 1
         /\ IF ~cfg.only_files_without_match
            THEN /\ out' = Append(out, gl)
                 /\ pc' = "yield_line"
            ELSE /\ out' = out
                 /\ pc' = "finally"
    ELSE /\ UNCHANGED <<match_counter, out, pc>>

\* line 182: the stream delivers a line, and the loop body runs on it
ReadLine ==
    /\ pc = "loop"
    /\ Len(inputs[cur].read) < MaxLines
    /\ \E line \in LinePool :
          /\ inputs' = [inputs EXCEPT ![cur].read = Append(@, line)]
          /\ idx' = idx + 1
          /\ ProcessLine(line)
    /\ UNCHANGED <<params, cfg, cur, pending, error, probe>>

\* line 182: the stream is exhausted, the for loop ends
ReadEof ==
    /\ pc = "loop"
    /\ inputs' = [inputs EXCEPT ![cur].io = "eof"]
    /\ pc' = "finally"
    /\ UNCHANGED <<params, cfg, cur, idx, match_counter, pending, out, error, probe>>

\* line 182: reading the next line raises
ReadFails ==
    /\ pc = "loop"
    /\ inputs' = [inputs EXCEPT ![cur].io = "failed"]
    /\ pending' = "IOError"
    /\ pc' = "finally"
    /\ UNCHANGED <<params, cfg, cur, idx, match_counter, out, error, probe>>

\* the consumer's next() at line 187 without the break of lines 190-191
ResumeLineNoBreak ==
    /\ pc = "yield_line"
    /\ pc' = "loop"
    /\ UNCHANGED <<params, cfg, inputs, cur, idx, match_counter, pending, out, error, probe>>

\* the consumer's next() at line 187: line 190 breaks in -l mode
ResumeLine ==
    /\ pc = "yield_line"
    /\ pc' = IF cfg.only_files_with_matches THEN "finally" ELSE "loop"
    /\ UNCHANGED <<params, cfg, inputs, cur, idx, match_counter, pending, out, error, probe>>

\* the generator is closed while suspended at line 187: GeneratorExit is
\* raised there and the finally block runs
CloseAtLine ==
    /\ pc = "yield_line"
    /\ pending' = "GeneratorExit"
    /\ pc' = "finally"
    /\ UNCHANGED <<params, cfg, inputs, cur, idx, match_counter, out, error, probe>>

\* after line 195: the exception in flight leaves grep(), or the loop goes on
AfterClose ==
    CASE pending = "IOError" ->
            /\ pc' = "raised"
            /\ error' = "IOError"
            /\ pending' = "None"
            /\ UNCHANGED <<cur, idx, match_counter>>
      [] pending = "GeneratorExit" ->
            /\ pc' = "closed"
            /\ pending' = "None"
            /\ UNCHANGED <<cur, idx, match_counter, error>>
      [] OTHER ->
            /\ NextInput(cur + 1)
            /\ UNCHANGED <<pending, error>>

\* lines 192-195 without the match_counter test of line 193
FinallyIgnoringCounter ==
    /\ pc = "finally"
    /\ IF cfg.only_files_without_match
       THEN /\ out' = Append(out, GrepLine(inputs[cur].input_name, -1, <<>>, cfg))
            /\ pc' = "yield_synth"
            /\ UNCHANGED <<inputs, cur, idx, match_counter, pending, error>>
       ELSE /\ inputs' = Close(inputs, cur)
            /\ AfterClose
            /\ out' = out
    /\ UNCHANGED <<params, cfg, probe>>

\* lines 192-195: the finally block up to its yield, or through close()
Finally ==
    /\ pc = "finally"
    /\ IF cfg.only_files_without_match /\ match_counter = 0
       THEN /\ out' = Append(out, GrepLine(inputs[cur].input_name, -1, <<>>, cfg))
            /\ pc' = "yield_synth"
            /\ UNCHANGED <<inputs, cur, idx, match_counter, pending, error>>
       ELSE /\ inputs' = Close(inputs, cur)
            /\ AfterClose
            /\ out' = out
    /\ UNCHANGED <<params, cfg, probe>>

\* the consumer's next() at line 194: line 195 closes the source
ResumeSynth ==
    /\ pc = "yield_synth"
    /\ inputs' = Close(inputs, cur)
    /\ AfterClose
    /\ UNCHANGED <<params, cfg, out, probe>>

\* the generator is closed while suspended at line 194, inside the finally
\* block: GeneratorExit is raised there and leaves grep(), replacing any
\* exception in flight; line 195 is not reached
CloseAtSynth ==
    /\ pc = "yield_synth"
    /\ pc' = "closed"
    /\ pending' = "None"
    /\ UNCHANGED <<params, cfg, inputs, cur, idx, match_counter, out, error, probe>>

\* the generator is closed before its first next(): no line of grep() runs
CloseUnstarted ==
    /\ pc = "created"
    /\ pc' = "closed"
    /\ UNCHANGED <<params, cfg, inputs, cur, idx, match_counter, pending, out, error, probe>>

Next ==
    \/ Start
    \/ ComputeInputsStdin
    \/ ComputeInputsOpen
    \/ ComputeInputsOpenFails
    \/ ComputeInputsReturn
    \/ ReadLine
    \/ ReadEof
    \/ ReadFails
    \/ ResumeLine
    \/ CloseAtLine
    \/ Finally
    \/ ResumeSynth
    \/ CloseAtSynth
    \/ CloseUnstarted

Spec == Init /\ [][Next]_vars

(***************************************************************************)
(* Vocabulary of the properties                                            *)
(***************************************************************************)
NormalMode == ~cfg.only_files_with_matches /\ ~cfg.only_files_without_match

\* a line is interesting when GrepLine.match() accepts it
Interesting(line) == match(GrepLine(<<>>, 0, line, cfg), cfg)

HasInteresting(r) == \E i \in 1..Len(r) : Interesting(r[i])

IsResultOf(g, k) == g.file_name = inputs[k].input_name

\* the results yielded so far for source k
ResultsOf(k) == SelectSeq(out, LAMBDA g : IsResultOf(g, k))

Requested == IF params.file_paths = <<>> THEN 1 ELSE Len(params.file_paths)

Finished == pc \in {"done", "raised", "closed"}

(***************************************************************************)
(* Properties of grep()                                                    *)
(***************************************************************************)
\* C1: once a run of grep() is over, by exhaustion of every source, by an
\* early stop or by a read error, every source that was opened has received
\* exactly one close().
C1_EveryOpenedSourceClosedOnce ==
    (pc = "done" \/ (pc = "raised" /\ error = "IOError"))
        => \A k \in 1..Len(inputs) : inputs[k].closed = 1

\* C2: once the generator has been closed while suspended at a yield, the
\* source it was scanning has been closed, in every mode.
C2_AbandonedSourceClosed ==
    (pc = "closed" /\ cur >= 1) => inputs[cur].closed = 1

\* C3: in -l mode every source with an interesting line has exactly one
\* result, rendered as its name and a line terminator, and nothing is read
\* after its first interesting line; a source without one has no result.
C3_FilesWithMatches ==
    cfg.only_files_with_matches =>
        \A k \in 1..Len(inputs) :
            LET r == inputs[k].read IN
            /\ Len(ResultsOf(k)) = (IF HasInteresting(r) THEN 1 ELSE 0)
            /\ \A i \in 1..Len(r) : Interesting(r[i]) => i = Len(r)
            /\ \A j \in 1..Len(out) :
                  IsResultOf(out[j], k) =>
                      GrepLineStr(out[j], cfg) = inputs[k].input_name \o <<NL>>

C3_Witness ==
    /\ cfg.only_files_with_matches
    /\ pc = "done"
    /\ Len(inputs) = 2
    /\ Len(inputs[1].read) = 1 /\ Interesting(inputs[1].read[1])
    /\ inputs[1].io = "open" /\ inputs[1].closed = 1
    /\ Len(inputs[2].read) = 2 /\ ~HasInteresting(inputs[2].read)
    /\ Len(out) = 1

\* a source whose scan is over: it reached its synthetic record or its close()
Concluded(k) == inputs[k].closed >= 1 \/ (k = cur /\ pc \in {"yield_synth", "closed"})

RECURSIVE ExpectedFrom(_, _)
ExpectedFrom(k, i) ==
    IF k > Len(inputs) THEN <<>>
    ELSE IF i > Len(inputs[k].read) THEN ExpectedFrom(k + 1, 1)
    ELSE (IF Interesting(inputs[k].read[i])
          THEN <<[file_name |-> inputs[k].input_name, n |-> i, line |-> inputs[k].read[i]]>>
          ELSE <<>>) \o ExpectedFrom(k, i + 1)

\* C6: in Normal mode the results are exactly the interesting lines read, in
\* source order and then file order, each with its raw text and its 1-based
\* position among all lines of its source.
C6_NormalModeResults ==
    NormalMode =>
        [j \in 1..Len(out) |->
            [file_name |-> out[j].file_name, n |-> out[j].n, line |-> out[j].line]]
        = ExpectedFrom(1, 1)

C6_Witness ==
    /\ NormalMode
    /\ pc = "done"
    /\ Len(inputs) = 2
    /\ Len(inputs[1].read) = 2
    /\ ~Interesting(inputs[1].read[1]) /\ Interesting(inputs[1].read[2])
    /\ Len(inputs[2].read) = 2
    /\ Interesting(inputs[2].read[1]) /\ ~Interesting(inputs[2].read[2])
    /\ Len(out) = 2 /\ out[1].n = 2 /\ out[2].n = 1

\* C8: with_filename is what -H / -h say, and otherwise whether more than one
\* path was requested; it stays so in every state of the run, also after a
\* source failed to open.
C8_WithFilenameResolved ==
    /\ cfg.with_filename =
          (\/ params.with_filename = "True"
           \/ (params.with_filename = "None" /\ Len(params.file_paths) >= 2))
    /\ cfg.file_paths = params.file_paths

C8_Witness ==
    /\ pc = "raised" /\ error = "OpenError"
    /\ params.with_filename = "None"
    /\ Len(params.file_paths) = 2 /\ Len(inputs) = 1
    /\ cfg.with_filename

\* C9: once a source has raised a read error and grep() is over, that source
\* has been closed and the error has reached the consumer.
C9_ReadErrorClosesAndPropagates ==
    \A k \in 1..Len(inputs) :
        (inputs[k].io = "failed" /\ Finished) =>
            /\ inputs[k].closed = 1
            /\ error = "IOError"

\* with a consumer that keeps pulling, a read error reaches it only after the
\* failed source was closed
ReadErrorRaisedAfterClose ==
    error = "IOError" =>
        /\ pc = "raised"
        /\ inputs[cur].io = "failed"
        /\ inputs[cur].closed = 1

\* C10: a line is read only once every requested source is open; while grep()
\* is suspended on a result of source cur, nothing of cur has been read past
\* the yielded line, no later source has been read, and every earlier source
\* is closed.
C10_LazyReadEagerOpen ==
    /\ (\E k \in 1..Len(inputs) : inputs[k].read # <<>> \/ inputs[k].io # "open")
          => Len(inputs) = Requested
    /\ pc \in {"yield_line", "yield_synth"} =>
          /\ \A k \in 1..Len(inputs) :
                /\ k < cur => inputs[k].closed = 1
                /\ k > cur => inputs[k].read = <<>> /\ inputs[k].io = "open"
                              /\ inputs[k].closed = 0
          /\ IsResultOf(out[Len(out)], cur)
          /\ pc = "yield_line" =>
                /\ out[Len(out)].n = Len(inputs[cur].read)
                /\ out[Len(out)].line = inputs[cur].read[Len(inputs[cur].read)]
                /\ inputs[cur].io = "open"

C10_Witness ==
    /\ pc = "yield_line"
    /\ cur = 2 /\ Len(inputs) = 2
    /\ Len(inputs[1].read) = 2 /\ inputs[1].closed = 1
    /\ Len(inputs[2].read) = 1 /\ out[Len(out)].n = 1

(***************************************************************************)
(* GrepLine.match() on its own: one line against one configuration         *)
(***************************************************************************)
LineAlphabet == {"a", "A", "b"}

ExprAlphabet == {"a", "A", "b", NL}

Idle ==
    /\ inputs = <<>>
    /\ pc = "probe"
    /\ cur = 0
    /\ idx = -1
    /\ match_counter = 0
    /\ pending = "None"
    /\ out = <<>>
    /\ error = "None"

\* candidate lines: text with or without its terminator
MatchLines ==
    LET body == SeqsUpTo(LineAlphabet, MaxLineLen) IN
    body \cup {Append(b, NL) : b \in body}

InitMatch ==
    /\ \E e \in SeqsUpTo(ExprAlphabet, MaxExprLen), v \in BOOLEAN, i \in BOOLEAN :
          params = ParamsOf(e, Paths(1), v, i, FALSE, "None", FALSE, FALSE)
    /\ cfg = GrepConfig(params)
    /\ \E line \in MatchLines :
          probe = [kind |-> "match", line |-> line, done |-> FALSE,
                   result |-> FALSE, flipped |-> FALSE]
    /\ Idle

\* GrepLine(...).match() under cfg, and under cfg with -v toggled
ApplyMatch ==
    /\ probe.kind = "match"
    /\ ~probe.done
    /\ LET other == GrepConfig([params EXCEPT !.invert_match = ~@]) IN
       probe' = [probe EXCEPT
                    !.done = TRUE,
                    !.result = match(GrepLine(PathName(1), 1, probe.line, cfg), cfg),
                    !.flipped = match(GrepLine(PathName(1), 1, probe.line, other), other)]
    /\ UNCHANGED <<params, cfg, inputs, pc, cur, idx, match_counter, pending, out, error>>

NextMatch == ApplyMatch

SpecMatch == InitMatch /\ [][NextMatch]_vars

\* p occurs in s as a contiguous run of characters
Contains(s, p) ==
    \E i \in 0..Len(s) :
        /\ i + Len(p) <= Len(s)
        /\ \A j \in 1..Len(p) : s[i + j] = p[j]

\* the pieces of s between its newlines, as (start, end) cuts of s
Pieces(s) ==
    LET cuts == {0, Len(s) + 1} \cup {i \in 1..Len(s) : s[i] = NL} IN
    {SubSeq(s, a + 1, b - 1) :
        <<a, b>> \in {c \in cuts \X cuts :
                        c[1] < c[2] /\ ~\E m \in cuts : c[1] < m /\ m < c[2]}}

Canonical(s) == IF params.ignore_case THEN Lower(s) ELSE s

SomePatternFound == \E p \in Pieces(params.expr) : Contains(Canonical(probe.line), Canonical(p))

\* C5: match() is (some pattern of the expression, split on newlines, occurs
\* in the line, both lower-cased iff ignore_case) XOR invert_match; toggling
\* invert_match negates it; an empty pattern makes every line match.
C5_MatchIsFoundXorInvert ==
    (probe.kind = "match" /\ probe.done) =>
        /\ probe.result = (SomePatternFound # params.invert_match)
        /\ probe.flipped = ~probe.result
        /\ (<<>> \in Pieces(params.expr)) => probe.result = ~params.invert_match

C5_Witness ==
    /\ probe.kind = "match" /\ probe.done
    /\ params.ignore_case /\ params.invert_match
    /\ Len(cfg.comparable_exprs) = 2
    /\ params.expr = <<"b", NL, "A">>
    /\ probe.line = <<"b", "a", NL>>
    /\ probe.result = FALSE /\ probe.flipped = TRUE

(***************************************************************************)
(* GrepLine.__str__() on its own                                           *)
(***************************************************************************)
TextAlphabet == {"a", ":"}

\* raw lines: text with or without its terminator
RawLines ==
    LET body == SeqsUpTo(TextAlphabet, MaxLineLen - 1) IN
    body \cup {Append(b, NL) : b \in body}

InitFormat ==
    /\ \E n \in 0..MaxPaths, np \in BOOLEAN, wf \in WithFilenameOpts,
          l \in BOOLEAN, bigL \in BOOLEAN :
          /\ ~(l /\ bigL)
          /\ params = ParamsOf(<<"a">>, Paths(n), FALSE, FALSE, np, wf, l, bigL)
    /\ cfg = GrepConfig(params)
    /\ \E line \in RawLines, n \in {-1} \cup 1..MaxLineNo,
          name \in {StdinName, PathName(1)} :
          probe = [kind |-> "format", gl |-> GrepLine(name, n, line, cfg),
                   done |-> FALSE, text |-> <<>>]
    /\ Idle

\* str(grep_line), as main() prints it
ApplyStr ==
    /\ probe.kind = "format"
    /\ ~probe.done
    /\ probe' = [probe EXCEPT !.done = TRUE, !.text = GrepLineStr(probe.gl, cfg)]
    /\ UNCHANGED <<params, cfg, inputs, pc, cur, idx, match_counter, pending, out, error>>

NextFormat == ApplyStr

SpecFormat == InitFormat /\ [][NextFormat]_vars

DigitValue(c) == CHOOSE d \in 0..9 : Digits[d + 1] = c

\* the number a decimal text denotes
RECURSIVE DecimalValue(_)
DecimalValue(t) ==
    IF Len(t) = 0 THEN 0
    ELSE 10 * DecimalValue(SubSeq(t, 1, Len(t) - 1)) + DigitValue(t[Len(t)])

\* t is the decimal text of n: digits only after an optional sign, no padding
IsDecimalOf(t, n) ==
    LET neg == Len(t) > 0 /\ t[1] = "-"
        d == IF neg THEN Tail(t) ELSE t IN
    /\ Len(d) >= 1
    /\ \A i \in 1..Len(d) : d[i] \in Range(Digits)
    /\ Len(d) > 1 => d[1] # "0"
    /\ n = (IF neg THEN 0 - DecimalValue(d) ELSE DecimalValue(d))

\* C7: in Normal mode the rendered result is the source name and a colon iff
\* with_filename, then the decimal line number and a colon iff number_prefix,
\* then the raw line text unchanged; with both off it is the raw line text.
C7_NormalModeRendering ==
    (probe.kind = "format" /\ probe.done /\ NormalMode) =>
        LET name == IF cfg.with_filename THEN probe.gl.file_name \o <<":">> ELSE <<>>
            t == probe.text
            numLen == Len(t) - Len(name) - Len(probe.gl.line) IN
        /\ SubSeq(t, 1, Len(name)) = name
        /\ SubSeq(t, Len(t) - Len(probe.gl.line) + 1, Len(t)) = probe.gl.line
        /\ IF cfg.number_prefix
           THEN /\ numLen >= 2
                /\ t[Len(name) + numLen] = ":"
                /\ IsDecimalOf(SubSeq(t, Len(name) + 1, Len(name) + numLen - 1), probe.gl.n)
           ELSE numLen = 0
        /\ (~cfg.with_filename /\ ~cfg.number_prefix) => t = probe.gl.line

C7_Witness ==
    /\ probe.kind = "format" /\ probe.done /\ NormalMode
    /\ cfg.with_filename /\ cfg.number_prefix
    /\ probe.gl.n = 10
    /\ probe.gl.line = <<"a", ":">>
    /\ probe.text = <<"f", "1", ":", "1", "0", ":", "a", ":">>

====
